---- MODULE Spec2Model ----
(***************************************************************************)
(* Model of ustCusipPanel.py: the auction records are classified by tenor  *)
(* (_classifyTenor, called from _loadOrDownloadData) and expanded into the *)
(* daily CUSIP-date panel (_createCusipPanel).                             *)
(*                                                                         *)
(* Dates are day numbers; day 1 is a Monday (2024-01-01), so day 6 and 7   *)
(* are a weekend.  A data frame is a sequence of records (its rows).       *)
(* A missing value (polars null) is Null in a numeric or date column and   *)
(* NoneStr in a string column.  The Boolean columns TIPS and floatingRate  *)
(* hold 0 (False) and 1 (True) so that they can be null and be sorted.     *)
(***************************************************************************)
EXTENDS Integers, Sequences, FiniteSets, TLC

VARIABLES pc, today, records, auctionsDf, completeDates, panel

vars == <<pc, today, records, auctionsDf, completeDates, panel>>

(***************************************************************************)
(* Bounds of the checked instance.                                         *)
(***************************************************************************)
MaxRecords == 2
MaxAmount == 2

Null == -99
NoneStr == "None"

Cusips == {"A", "B"}

Min(S) == CHOOSE x \in S : \A y \in S : x <= y
MinDate(a, b) == IF a <= b THEN a ELSE b

\* dt.weekday(): Monday = 1 ... Sunday = 7
weekday(d) == ((d - 1) % 7) + 1

(***************************************************************************)
(* Data frame helpers.                                                     *)
(***************************************************************************)
\* Order of string values (polars sorts strings lexicographically).
cusipOrd(c) == CASE c = "A" -> 1 [] c = "B" -> 2

typeOrd(t) == CASE t = "Bill" -> 1 [] t = "Bond" -> 2 [] t = "Note" -> 3 [] OTHER -> Null

\* Sort key of a column sorted descending: nulls stay first.
desc(v) == IF v = Null THEN Null ELSE 0 - v

LexLess(a, b) ==
    \E i \in 1..Len(a) : a[i] < b[i] /\ \A j \in 1..(i - 1) : a[j] = b[j]

\* The rows of rest inserted one by one into the sorted frame done; keys
\* follow the rows.  A row goes behind the rows with a smaller key and, unless
\* reverseTies, behind those with an equal key.
RECURSIVE insertAll(_, _, _, _, _)
insertAll(done, doneKeys, rest, restKeys, reverseTies) ==
    IF rest = <<>> THEN done
    ELSE LET key == Head(restKeys)
             p == Cardinality({k \in 1..Len(done) :
                      \/ LexLess(doneKeys[k], key)
                      \/ doneKeys[k] = key /\ ~reverseTies})
         IN  insertAll(SubSeq(done, 1, p) \o <<Head(rest)>> \o SubSeq(done, p + 1, Len(done)),
                       SubSeq(doneKeys, 1, p) \o <<key>> \o SubSeq(doneKeys, p + 1, Len(done)),
                       Tail(rest), Tail(restKeys), reverseTies)

\* DataFrame.sort(by) with the default maintain_order=False: rows are ordered
\* by their key, and the order of rows with equal keys is not specified.  The
\* outcome is drawn from two of the possible ones: equal rows keep their
\* incoming order (reverseTies = FALSE) or come out reversed (TRUE).
\* keys[i] is the sort key of row i.
sort(df, keys, reverseTies) == insertAll(<<>>, <<>>, df, keys, reverseTies)

RECURSIVE concat(_)
\* pl.concat of a list of frames
concat(frames) ==
    IF frames = <<>> THEN <<>> ELSE Head(frames) \o concat(Tail(frames))

\* The rows of cusip c, as positions of df.
rowsOf(df, c) == {i \in 1..Len(df) : df[i].cusip = c}

cusipsOf(df) == {df[i].cusip : i \in 1..Len(df)}

(***************************************************************************)
(* _classifyTenor                                                          *)
(***************************************************************************)
\* The bill bands, in the order they are tested: <<first day, last day, weeks>>
BillBands ==
    << <<6, 8, 1>>, <<13, 15, 2>>, <<26, 30, 4>>, <<53, 59, 8>>, <<86, 96, 13>>,
       <<114, 124, 17>>, <<149, 159, 22>>, <<176, 188, 26>>, <<357, 371, 52>> >>

\* The note and bond bands, in the order they are tested: <<years, tolerance>>
YearBands ==
    << <<2, 93>>, <<3, 93>>, <<4, 93>>, <<5, 180>>, <<7, 180>>, <<10, 240>>,
       <<20, 540>>, <<30, 720>> >>

\* (termToMaturityDays >= first) & (termToMaturityDays <= last)
billBand(days, first, last) == days >= first /\ days <= last

\* Variant of yearBand with twice the tolerance.
yearBandTwiceTolerance(days, n, tol) ==
    /\ 4 * days >= n * 1461 - 8 * tol
    /\ 4 * days <= n * 1461 + 8 * tol

\* n-year band: n*365.25 - tol <= days <= n*365.25 + tol, in quarter days
yearBand(days, n, tol) ==
    /\ 4 * days >= n * 1461 - 4 * tol
    /\ 4 * days <= n * 1461 + 4 * tol

\* The bands that contain days, as positions of BillBands and of YearBands.
billBandsOf(days) ==
    {k \in 1..Len(BillBands) : billBand(days, BillBands[k][1], BillBands[k][2])}

yearBandsOf(days) ==
    {k \in 1..Len(YearBands) : yearBand(days, YearBands[k][1], YearBands[k][2])}

\* The when/then chain: the value of the first band that contains days, null
\* (otherwise) when none does.
tenorBand(days) ==
    IF billBandsOf(days) # {} THEN BillBands[Min(billBandsOf(days))][3]
    ELSE IF yearBandsOf(days) # {} THEN YearBands[Min(yearBandsOf(days))][1]
    ELSE Null

\* Variant of isUnscheduledReopening that takes every reopening for one.
isAnyReopening(r) == r.reopening = "Yes"

\* (announcemtd_cusip != "null") & (reopening == "Yes"); a null
\* announcemtd_cusip makes the condition null or false, so otherwise() applies.
isUnscheduledReopening(r) ==
    r.announcemtd_cusip # NoneStr /\ r.reopening = "Yes"

\* Record r with the dates of the first record of its cusip, its term to
\* maturity and its unscheduledReopeningDate.
withTermToMaturity(r, first) ==
    r @@
    [earliestIssueDate |-> first.issue_date,
     earliestMaturityDate |-> first.maturity_date,
     termToMaturityDays |->
         IF isUnscheduledReopening(r)
         THEN first.maturity_date - r.issue_date
         ELSE first.maturity_date - first.issue_date,
     unscheduledReopeningDate |->
         IF isUnscheduledReopening(r) THEN r.issue_date ELSE Null]

\* group_by("cusip").agg(first()) on the sorted frame, joined back
withEarliestDates(sorted) ==
    [i \in 1..Len(sorted) |->
        withTermToMaturity(sorted[i], sorted[Min(rowsOf(sorted, sorted[i].cusip))])]

\* The records sorted by cusip and issue date, each with its term to maturity.
termToMaturity(df, reverseTies) ==
    withEarliestDates(sort(df, [i \in 1..Len(df) |->
                                   <<cusipOrd(df[i].cusip), df[i].issue_date>>],
                           reverseTies))

IntermediateColumns == {"termToMaturityDays", "earliestIssueDate", "earliestMaturityDate"}

\* Record r with its tenor and without the intermediate columns.
withTenor(r) ==
    [col \in (DOMAIN r \ IntermediateColumns) \cup {"tenor"} |->
        IF col = "tenor" THEN tenorBand(r.termToMaturityDays) ELSE r[col]]

\* The tenor column is added and the intermediate columns are dropped.
assignTenor(df) == [i \in 1..Len(df) |-> withTenor(df[i])]

classifyTenor(df, reverseTies) == assignTenor(termToMaturity(df, reverseTies))

(***************************************************************************)
(* _loadOrDownloadData, after the fetch: classification and conversions    *)
(***************************************************************************)
yesNo(v) == IF v = "Yes" THEN 1 ELSE 0

issuanceTypeOf(reopening) ==
    CASE reopening = "No" -> "Opening"
      [] reopening = "Yes" -> "Re-opening"
      [] OTHER -> NoneStr

\* The conversions of one classified record.
converted(r) ==
    [cusip |-> r.cusip,
     security_type |-> r.security_type,
     issue_date |-> r.issue_date,
     maturity_date |-> r.maturity_date,
     int_rate |-> r.int_rate,
     total_accepted |-> r.total_accepted,
     inflation_index_security |-> yesNo(r.inflation_index_security),
     floating_rate |-> yesNo(r.floating_rate),
     announcemt_date |-> r.announcemt_date,
     announcemtd_cusip |-> r.announcemtd_cusip,
     auction_date |-> r.auction_date,
     tenor |-> r.tenor,
     unscheduledReopeningDate |-> r.unscheduledReopeningDate,
     issuanceType |-> issuanceTypeOf(r.reopening)]

convertColumns(classified) ==
    [i \in 1..Len(classified) |-> converted(classified[i])]

loadOrDownloadData(df, reverseTies) == convertColumns(classifyTenor(df, reverseTies))

(***************************************************************************)
(* _createCusipPanel                                                       *)
(***************************************************************************)
StringColumns == {"cusip", "issuanceType", "securityType"}

nullOf(col) == IF col \in StringColumns THEN NoneStr ELSE Null

isNull(row, col) == row[col] = nullOf(col)

\* 1. issue_date.min().over("cusip")
firstIssueDateOf(df, c) == Min({df[i].issue_date : i \in rowsOf(df, c)})

\* 2. group_by("cusip").agg(announcemt_date.min(), maturity_date.first())
startDateOf(df, c) == Min({df[i].announcemt_date : i \in rowsOf(df, c)})

endDateOf(df, c) == df[Min(rowsOf(df, c))].maturity_date

\* pl.date_range(start, end, "1d"): every calendar day, none when start > end
dateRange(start, end) == [k \in 1..(end - start + 1) |-> start + k - 1]

cusipDates(df, c, now) ==
    LET range == dateRange(startDateOf(df, c), MinDate(endDateOf(df, c), now))
    IN  [k \in 1..Len(range) |-> [cusip |-> c, date |-> range[k]]]

\* group_by does not keep the order of the groups: the frames of the cusips
\* are concatenated in the order the groups happen to come out.
groupOrders(df) ==
    {o \in [1..Cardinality(cusipsOf(df)) -> cusipsOf(df)] :
        \A i, j \in DOMAIN o : i # j => o[i] # o[j]}

allCusipDates(df, order, now) ==
    [k \in 1..Len(order) |-> cusipDates(df, order[k], now)]

\* auctionsDf.select([...]) with the renamed columns
selectAuctionData(df) ==
    [i \in 1..Len(df) |->
        [cusip |-> df[i].cusip,
         date |-> df[i].issue_date,
         amountIssued |-> df[i].total_accepted,
         issuanceType |-> df[i].issuanceType,
         tenor |-> df[i].tenor,
         coupon |-> df[i].int_rate,
         maturityDate |-> df[i].maturity_date,
         announcementDate |-> df[i].announcemt_date,
         auctionDate |-> df[i].auction_date,
         unscheduledReopeningDate |-> df[i].unscheduledReopeningDate,
         firstIssueDate |-> firstIssueDateOf(df, df[i].cusip),
         TIPS |-> df[i].inflation_index_security,
         floatingRate |-> df[i].floating_rate,
         securityType |-> df[i].security_type]]

\* Variant of moveToToday that keeps the amount of the future-dated record.
moveToTodayKeepAmount(row, now) ==
    [row EXCEPT !.date = now, !.issuanceType = NoneStr,
                !.unscheduledReopeningDate = Null]

\* Variant of moveToToday that keeps the issuanceType of the future-dated record.
moveToTodayKeepType(row, now) ==
    [row EXCEPT !.date = now, !.unscheduledReopeningDate = Null,
                !.amountIssued = 0]

\* A future-dated record becomes a row at today with no issue event.
moveToToday(row, now) ==
    [row EXCEPT !.date = now, !.issuanceType = NoneStr,
                !.unscheduledReopeningDate = Null, !.amountIssued = 0]

\* Future-dated records: dropped, or moved to today when the cusip has no
\* record dated today.
resolveFutureDated(auctionData, now) ==
    LET futureDated == SelectSeq(auctionData, LAMBDA r : r.date > now)
        cusipsWithToday ==
            cusipsOf(SelectSeq(auctionData, LAMBDA r : r.date = now))
        futureWithoutToday ==
            SelectSeq(futureDated, LAMBDA r : r.cusip \notin cusipsWithToday)
        kept == SelectSeq(auctionData, LAMBDA r : r.date <= now)
    IN  IF Len(futureDated) > 0
        THEN IF Len(futureWithoutToday) > 0
             THEN kept \o [i \in 1..Len(futureWithoutToday) |->
                              moveToToday(futureWithoutToday[i], now)]
             ELSE kept
        ELSE auctionData

nullRow(slot) ==
    [cusip |-> slot.cusip, date |-> slot.date,
     amountIssued |-> Null, issuanceType |-> NoneStr, tenor |-> Null,
     coupon |-> Null, maturityDate |-> Null, announcementDate |-> Null,
     auctionDate |-> Null, unscheduledReopeningDate |-> Null,
     firstIssueDate |-> Null, TIPS |-> Null, floatingRate |-> Null,
     securityType |-> NoneStr]

\* completeDates.join(auctionData, on=["cusip", "date"], how="left")
leftJoin(slots, auctionData) ==
    LET matches(slot) ==
            SelectSeq(auctionData,
                   LAMBDA r : r.cusip = slot.cusip /\ r.date = slot.date)
    IN  concat([k \in 1..Len(slots) |->
                   IF matches(slots[k]) = <<>>
                   THEN <<nullRow(slots[k])>> ELSE matches(slots[k])])

ForwardFilled == {"tenor", "coupon", "maturityDate", "announcementDate",
                  "auctionDate", "unscheduledReopeningDate", "firstIssueDate",
                  "TIPS", "floatingRate", "securityType"}

BackwardFilled == ForwardFilled \ {"unscheduledReopeningDate"}

RECURSIVE lastKnown(_, _, _, _)
\* The nearest row at or before i of cusip c whose col is not null; 0 if none.
lastKnown(df, c, col, i) ==
    IF i = 0 THEN 0
    ELSE IF df[i].cusip = c /\ ~isNull(df[i], col) THEN i
    ELSE lastKnown(df, c, col, i - 1)

RECURSIVE nextKnown(_, _, _, _)
\* The nearest row at or after i of cusip c whose col is not null; 0 if none.
nextKnown(df, c, col, i) ==
    IF i > Len(df) THEN 0
    ELSE IF df[i].cusip = c /\ ~isNull(df[i], col) THEN i
    ELSE nextKnown(df, c, col, i + 1)

\* col.forward_fill().over("cusip"): a null takes the last value before it
forwardFill(df, cols) ==
    [i \in 1..Len(df) |->
        [col \in DOMAIN df[i] |->
            IF col \in cols /\ isNull(df[i], col)
            THEN LET j == lastKnown(df, df[i].cusip, col, i)
                 IN  IF j = 0 THEN df[i][col] ELSE df[j][col]
            ELSE df[i][col]]]

\* Variant of backwardFill that fills nothing.
noBackwardFill(df, cols) == df

\* col.backward_fill().over("cusip"): a null takes the first value after it
backwardFill(df, cols) ==
    [i \in 1..Len(df) |->
        [col \in DOMAIN df[i] |->
            IF col \in cols /\ isNull(df[i], col)
            THEN LET j == nextKnown(df, df[i].cusip, col, i)
                 IN  IF j = 0 THEN df[i][col] ELSE df[j][col]
            ELSE df[i][col]]]

\* Variant of amountIssuedOf that leaves the joined amount as it is.
amountIssuedUnfilled(row) == row.amountIssued

\* when(date < firstIssueDate).then(0).otherwise(amountIssued.fill_null(0));
\* a null firstIssueDate makes the condition null, so otherwise() applies.
amountIssuedOf(row) ==
    IF row.firstIssueDate # Null /\ row.date < row.firstIssueDate THEN 0
    ELSE IF row.amountIssued = Null THEN 0 ELSE row.amountIssued

setAmountIssued(df) ==
    [i \in 1..Len(df) |-> [df[i] EXCEPT !.amountIssued = amountIssuedOf(df[i])]]

RECURSIVE runningSum(_, _, _)
\* The sum of amountIssued over the rows of cusip c among the first i rows.
runningSum(df, c, i) ==
    IF i = 0 THEN 0
    ELSE (IF df[i].cusip = c THEN df[i].amountIssued ELSE 0) + runningSum(df, c, i - 1)

\* Variant of cumSum that does not accumulate.
cumSumOfRowOnly(df) ==
    [i \in 1..Len(df) |-> df[i] @@ [totalIssued |-> df[i].amountIssued]]

RECURSIVE runningSumOfBusinessDays(_, _, _)
runningSumOfBusinessDays(df, c, i) ==
    IF i = 0 THEN 0
    ELSE (IF df[i].cusip = c /\ weekday(df[i].date) < 6 THEN df[i].amountIssued ELSE 0)
             + runningSumOfBusinessDays(df, c, i - 1)

\* Variant of cumSum that leaves the rows of Saturdays and Sundays out of the sum.
cumSumOfBusinessDays(df) ==
    [i \in 1..Len(df) |->
        df[i] @@ [totalIssued |-> runningSumOfBusinessDays(df, df[i].cusip, i)]]

\* amountIssued.cum_sum().over("cusip"), in the order of the frame
cumSum(df) ==
    [i \in 1..Len(df) |->
        df[i] @@ [totalIssued |-> runningSum(df, df[i].cusip, i)]]

samePeerGroup(r1, r2) ==
    /\ r1.date = r2.date
    /\ r1.securityType = r2.securityType
    /\ r1.TIPS = r2.TIPS
    /\ r1.floatingRate = r2.floatingRate
    /\ r1.tenor = r2.tenor

peersOf(df, i) == {j \in 1..Len(df) : samePeerGroup(df[j], df[i])}

\* Variant of denseRank that ranks ascending: the earliest first issue is 0.
denseRankAscending(df, i) ==
    IF df[i].firstIssueDate = Null THEN Null
    ELSE Cardinality({df[j].firstIssueDate : j \in
            {k \in peersOf(df, i) : /\ df[k].firstIssueDate # Null
                                    /\ df[k].firstIssueDate < df[i].firstIssueDate}})

\* firstIssueDate.rank(method="dense", descending=True).over(group) - 1:
\* the number of distinct later firstIssueDate values of the group; the rank
\* of a null is null.
denseRank(df, i) ==
    IF df[i].firstIssueDate = Null THEN Null
    ELSE Cardinality({df[j].firstIssueDate : j \in
            {k \in peersOf(df, i) : /\ df[k].firstIssueDate # Null
                                    /\ df[k].firstIssueDate > df[i].firstIssueDate}})

\* Variant of hasWhenIssued that looks at all rows of the date, not only at
\* those of the peer group.
hasWhenIssuedOnDate(df, i) ==
    \E j \in 1..Len(df) :
        /\ df[j].date = df[i].date
        /\ df[j].firstIssueDate # Null /\ df[j].date < df[j].firstIssueDate

\* (date < firstIssueDate).any().over(group)
hasWhenIssued(df, i) ==
    \E j \in peersOf(df, i) :
        df[j].firstIssueDate # Null /\ df[j].date < df[j].firstIssueDate

vintageOf(df, i) ==
    IF denseRank(df, i) = Null THEN Null
    ELSE IF hasWhenIssued(df, i) THEN denseRank(df, i) - 1 ELSE denseRank(df, i)

setVintage(df) ==
    [i \in 1..Len(df) |-> df[i] @@ [vintage |-> vintageOf(df, i)]]

\* Variant of isBusinessDay that drops Sundays only.
isNotSunday(row) == weekday(row.date) < 7

\* date.dt.weekday() < 6
isBusinessDay(row) == weekday(row.date) < 6

dropWeekends(df) == SelectSeq(df, isBusinessDay)

cusipDateKey(row) == <<cusipOrd(row.cusip), row.date>>

cumSumKey(row) ==
    <<desc(cusipOrd(row.cusip)), row.date, row.tenor, desc(row.firstIssueDate)>>

finalKey(row) ==
    <<row.floatingRate, row.TIPS, desc(row.date), desc(typeOrd(row.securityType)),
      row.tenor, row.vintage>>

\* Steps 1 and 2: one slot per cusip and calendar day.
completeDatesOf(df, order, now) == concat(allCusipDates(df, order, now))

\* sort(["cusip", "date"])
sortByCusipDate(df, reverseTies) ==
    sort(df, [i \in 1..Len(df) |-> cusipDateKey(df[i])], reverseTies)

\* sort(["cusip", "date", "tenor", "firstIssueDate"], descending=[True, False, False, True])
sortForCumSum(df, reverseTies) ==
    sort(df, [i \in 1..Len(df) |-> cumSumKey(df[i])], reverseTies)

\* sort([...], descending=[False, False, True, True, False, False])
sortFinal(df, reverseTies) ==
    sort(df, [i \in 1..Len(df) |-> finalKey(df[i])], reverseTies)

\* Future-dated records are resolved, the slots are joined with the auction
\* data and the rows sorted by cusip and date.
joinAuctionData(slots, df, now, reverseTies) ==
    sortByCusipDate(leftJoin(slots, resolveFutureDated(selectAuctionData(df), now)),
                    reverseTies)

\* Forward fill, then backward fill, of the static columns.
fillStatic(df) == backwardFill(forwardFill(df, ForwardFilled), BackwardFilled)

\* 3. amountIssued and its cumulative sum per cusip.
cumulativeIssuance(df, reverseTies) ==
    cumSum(sortForCumSum(setAmountIssued(df), reverseTies))

\* 5. Weekend rows are dropped and the panel is sorted.
finalize(df, reverseTies) == sortFinal(dropWeekends(df), reverseTies)

\* The unspecified choices of one run: the order of the groups and, for each
\* sort, the order of equal rows.
Runs(df) ==
    [load : BOOLEAN, order : groupOrders(df), join : BOOLEAN,
     issuance : BOOLEAN, final : BOOLEAN]

\* _createCusipPanel on the loaded records
createCusipPanel(loaded, now, run) ==
    finalize(
        setVintage(
            cumulativeIssuance(
                fillStatic(joinAuctionData(completeDatesOf(loaded, run.order, now),
                                           loaded, now, run.join)),
                run.issuance)),
        run.final)

\* ustCusipPanel on a non-empty frame of records
ustCusipPanel(df, now, run) ==
    createCusipPanel(loadOrDownloadData(df, run.load), now, run)

(***************************************************************************)
(* The auction records handed to the build.                                *)
(*                                                                         *)
(* The static attributes of a security (type, coupon, maturity, flags) are *)
(* the same on all of its records.  A security is announced AnnounceLag    *)
(* days before it is issued and auctioned the day before the issue; the    *)
(* build runs on or after the announcement of every record it is given.    *)
(***************************************************************************)
AnnounceLag == 4

IssueDays == {2, 8, 9}

TodayDays == {6, 8, 9}

Amounts == {Null, MaxAmount}

\* <<reopening, announcemtd_cusip>>
ReopeningFlags == {<<"No", NoneStr>>, <<"Yes", "X">>}

BillProfile == [security_type |-> "Bill", int_rate |-> Null, maturity_date |-> 16,
                inflation_index_security |-> "No", floating_rate |-> "No"]

NoteProfile == [security_type |-> "Note", int_rate |-> 3, maturity_date |-> 8,
                inflation_index_security |-> "Yes", floating_rate |-> "No"]

\* Cusip A is a bill; cusip B is a bill of the same kind or a TIPS note.
Profiles == {[A |-> BillProfile, B |-> BillProfile],
             [A |-> BillProfile, B |-> NoteProfile]}

rawRecord(profile, c, issue, amount, flags) ==
    [cusip |-> c,
     security_type |-> profile[c].security_type,
     issue_date |-> issue,
     maturity_date |-> profile[c].maturity_date,
     int_rate |-> profile[c].int_rate,
     total_accepted |-> amount,
     reopening |-> flags[1],
     inflation_index_security |-> profile[c].inflation_index_security,
     floating_rate |-> profile[c].floating_rate,
     announcemt_date |-> IF issue > AnnounceLag THEN issue - AnnounceLag ELSE 1,
     announcemtd_cusip |-> flags[2],
     auction_date |-> issue - 1]

\* The records of the cusips issued on one of days that the build can be given
\* on day now.
RawRecordsOn(days, profile, now) ==
    {r \in {rawRecord(profile, c, issue, amount, flags) :
                c \in Cusips, issue \in days, amount \in Amounts,
                flags \in ReopeningFlags} :
        r.issue_date < r.maturity_date /\ r.announcemt_date <= now}

RawRecords(profile, now) == RawRecordsOn(IssueDays, profile, now)

\* The records arrive in no particular order; each set of records is taken in
\* one order, latest issue first.
arrivalKey(r) ==
    <<desc(r.issue_date), desc(cusipOrd(r.cusip)), r.total_accepted,
      IF r.reopening = "Yes" THEN 1 ELSE 0,
      IF r.announcemtd_cusip = NoneStr THEN 0 ELSE 1>>

FramesOf(raw) ==
    UNION {{df \in [1..n -> raw] :
               \A i \in 1..(n - 1) : LexLess(arrivalKey(df[i]), arrivalKey(df[i + 1]))} :
           n \in 0..MaxRecords}

RecordFrames(profile, now) == FramesOf(RawRecords(profile, now))

Init ==
    /\ pc = "start"
    /\ today \in TodayDays
    /\ \E profile \in Profiles : records \in RecordFrames(profile, today)
    /\ auctionsDf = <<>>
    /\ completeDates = <<>>
    /\ panel = <<>>

\* _loadOrDownloadData: the records are classified and converted.
LoadOrDownloadData ==
    /\ pc = "start"
    /\ \E reverseTies \in BOOLEAN :
           auctionsDf' = loadOrDownloadData(records, reverseTies)
    /\ pc' = "loaded"
    /\ UNCHANGED <<today, records, completeDates, panel>>

\* _createCusipPanel, steps 1 and 2: one slot per cusip and calendar day.
CompleteDates ==
    /\ pc = "loaded"
    /\ auctionsDf # <<>>
    /\ \E order \in groupOrders(auctionsDf) :
           completeDates' = completeDatesOf(auctionsDf, order, today)
    /\ pc' = "dates"
    /\ UNCHANGED <<today, records, auctionsDf, panel>>

\* pl.concat of an empty list raises ValueError("cannot concat empty list").
ConcatEmptyList ==
    /\ pc = "loaded"
    /\ auctionsDf = <<>>
    /\ pc' = "error"
    /\ UNCHANGED <<today, records, auctionsDf, completeDates, panel>>

\* Future-dated records are resolved, the slots are joined with the auction
\* data and the rows sorted by cusip and date.
JoinAuctionData ==
    /\ pc = "dates"
    /\ \E reverseTies \in BOOLEAN :
           panel' = joinAuctionData(completeDates, auctionsDf, today, reverseTies)
    /\ pc' = "joined"
    /\ UNCHANGED <<today, records, auctionsDf, completeDates>>

\* Forward fill, then backward fill, of the static columns.
FillStatic ==
    /\ pc = "joined"
    /\ panel' = fillStatic(panel)
    /\ pc' = "filled"
    /\ UNCHANGED <<today, records, auctionsDf, completeDates>>

\* amountIssued and its cumulative sum per cusip.
CumulativeIssuance ==
    /\ pc = "filled"
    /\ \E reverseTies \in BOOLEAN :
           panel' = cumulativeIssuance(panel, reverseTies)
    /\ pc' = "issued"
    /\ UNCHANGED <<today, records, auctionsDf, completeDates>>

\* The vintage of every row, with the when-issued adjustment.
Vintage ==
    /\ pc = "issued"
    /\ panel' = setVintage(panel)
    /\ pc' = "ranked"
    /\ UNCHANGED <<today, records, auctionsDf, completeDates>>

\* Weekend rows are dropped and the panel is sorted.
Finalize ==
    /\ pc = "ranked"
    /\ \E reverseTies \in BOOLEAN :
           panel' = finalize(panel, reverseTies)
    /\ pc' = "done"
    /\ UNCHANGED <<today, records, auctionsDf, completeDates>>

Next ==
    \/ LoadOrDownloadData
    \/ CompleteDates
    \/ ConcatEmptyList
    \/ JoinAuctionData
    \/ FillStatic
    \/ CumulativeIssuance
    \/ Vintage
    \/ Finalize

Spec == Init /\ [][Next]_vars

(***************************************************************************)
(* The same build on the records of bills of which some are issued on a    *)
(* Saturday.                                                               *)
(***************************************************************************)
WeekendIssueDays == {2, 6, 9}

InitWeekendIssue ==
    /\ pc = "start"
    /\ today \in TodayDays
    /\ records \in FramesOf(RawRecordsOn(WeekendIssueDays,
                                          [c \in Cusips |-> BillProfile], today))
    /\ auctionsDf = <<>>
    /\ completeDates = <<>>
    /\ panel = <<>>

SpecWeekendIssue == InitWeekendIssue /\ [][Next]_vars

(***************************************************************************)
(* The classification on its own, _classifyTenor step by step, on records  *)
(* of every term to maturity.  A frame holds one security first issued on  *)
(* day 1, alone or with a later record of the same cusip (a reopening or   *)
(* not, announced under another cusip or not) and a bill of another cusip. *)
(***************************************************************************)
MaxTermDays == 11700

FirstIssueDay == 1

SecurityTypes == {"Bill", "Note", "Bond"}

AllReopeningFlags ==
    {<<"No", NoneStr>>, <<"Yes", "X">>, <<"Yes", NoneStr>>, <<"No", "X">>}

\* Terms of the securities that have a second record, and the days left to
\* maturity when the second record is issued.
ReopenedTerms == {28, 730}

DaysLeft == {7, 28, 100}

termProfile(type, term) ==
    [c \in Cusips |->
        [security_type |-> IF c = "A" THEN type ELSE "Bill",
         int_rate |-> IF c = "A" /\ type # "Bill" THEN 3 ELSE Null,
         maturity_date |-> FirstIssueDay + (IF c = "A" THEN term ELSE 91),
         inflation_index_security |-> "No",
         floating_rate |-> "No"]]

firstRecord(type, term) ==
    rawRecord(termProfile(type, term), "A", FirstIssueDay, MaxAmount, <<"No", NoneStr>>)

laterRecord(type, term, left, flags) ==
    rawRecord(termProfile(type, term), "A", FirstIssueDay + term - left, MaxAmount, flags)

otherBill == rawRecord(termProfile("Bill", 91), "B", FirstIssueDay, MaxAmount, <<"No", NoneStr>>)

\* <<type, term, days left, flags>> of the securities with a second record
Reopenings ==
    {x \in SecurityTypes \X ReopenedTerms \X DaysLeft \X AllReopeningFlags :
        x[3] < x[2]}

TermFrames ==
    {<<firstRecord(type, term)>> : type \in SecurityTypes, term \in 1..MaxTermDays}
    \cup UNION {{<<laterRecord(x[1], x[2], x[3], x[4]), firstRecord(x[1], x[2])>>,
                 <<firstRecord(x[1], x[2]), otherBill,
                   laterRecord(x[1], x[2], x[3], x[4])>>} : x \in Reopenings}

InitTenor ==
    /\ pc = "start"
    /\ today = FirstIssueDay
    /\ records \in TermFrames
    /\ auctionsDf = <<>>
    /\ completeDates = <<>>
    /\ panel = <<>>

\* _classifyTenor up to the term to maturity of every record.
TermToMaturity ==
    /\ pc = "start"
    /\ \E reverseTies \in BOOLEAN :
           auctionsDf' = termToMaturity(records, reverseTies)
    /\ pc' = "termed"
    /\ UNCHANGED <<today, records, completeDates, panel>>

\* _classifyTenor from there: the tenor of every record.
AssignTenor ==
    /\ pc = "termed"
    /\ auctionsDf' = assignTenor(auctionsDf)
    /\ pc' = "classified"
    /\ UNCHANGED <<today, records, completeDates, panel>>

NextTenor == TermToMaturity \/ AssignTenor

SpecTenor == InitTenor /\ [][NextTenor]_vars

(***************************************************************************)
(* Properties of the finished panel, stated against the input records.     *)
(***************************************************************************)
inputCusips == cusipsOf(records)

recordsOf(c) == rowsOf(records, c)

announcementDate(c) == Min({records[i].announcemt_date : i \in recordsOf(c)})

maturityDate(c) == Min({records[i].maturity_date : i \in recordsOf(c)})

firstIssueDate(c) == Min({records[i].issue_date : i \in recordsOf(c)})

\* The business dates of the span of cusip c.
businessDates(c) ==
    {d \in announcementDate(c)..MinDate(maturityDate(c), today) : weekday(d) < 6}

panelRows(c, d) ==
    {i \in 1..Len(panel) : panel[i].cusip = c /\ panel[i].date = d}

RECURSIVE sumOver(_, _)
sumOver(f, S) ==
    IF S = {} THEN 0
    ELSE LET i == CHOOSE x \in S : TRUE IN f[i] + sumOver(f, S \ {i})

panelAmounts == [i \in 1..Len(panel) |-> panel[i].amountIssued]

\* total_accepted of the input records, a null counting as nothing
acceptedAmounts ==
    [i \in 1..Len(records) |->
        IF records[i].total_accepted = Null THEN 0 ELSE records[i].total_accepted]

isWhenIssued(row) == row.date < firstIssueDate(row.cusip)

peerGroup(i) == {j \in 1..Len(panel) : samePeerGroup(panel[j], panel[i])}

\* C1: for every cusip of the input and every business date of its span the
\* panel holds exactly one row.
C1_ExactlyOneRow ==
    pc = "done" =>
        \A c \in inputCusips : \A d \in businessDates(c) :
            Cardinality(panelRows(c, d)) = 1

\* C2 (as claimed): per cusip, the amountIssued of the panel rows add up to the
\* total_accepted of all of the cusip's records.
C2_Conservation ==
    pc = "done" =>
        \A c \in inputCusips :
            sumOver(panelAmounts, rowsOf(panel, c))
                = sumOver(acceptedAmounts, recordsOf(c))

\* C2 (amended): per cusip, the amountIssued of the panel rows add up to the
\* total_accepted of the cusip's records issued on a business date of its span
\* (so not later than today).
C2_ConservationOfIssued ==
    pc = "done" =>
        \A c \in inputCusips :
            sumOver(panelAmounts, rowsOf(panel, c))
                = sumOver(acceptedAmounts,
                          {i \in recordsOf(c) : records[i].issue_date \in businessDates(c)})

C2_Witness ==
    /\ pc = "done"
    /\ \E c \in inputCusips : \E i, j \in recordsOf(c) :
           /\ records[i].issue_date < today
           /\ records[j].issue_date > today
           /\ records[i].total_accepted # Null
           /\ records[j].total_accepted # Null
           /\ sumOver(panelAmounts, rowsOf(panel, c)) = records[i].total_accepted

hasUnscheduledReopening(c) ==
    \E i \in recordsOf(c) : isUnscheduledReopening(records[i])

C4_TotalIssuedNonDecreasing ==
    pc = "done" =>
        \A i, j \in 1..Len(panel) :
            panel[i].cusip = panel[j].cusip /\ panel[i].date < panel[j].date =>
                panel[i].totalIssued <= panel[j].totalIssued

C4_Witness ==
    /\ pc = "done"
    /\ \E i, j, k \in 1..Len(panel) :
           /\ panel[i].cusip = panel[j].cusip
           /\ panel[j].cusip = panel[k].cusip
           /\ panel[i].date < panel[j].date
           /\ panel[j].date < panel[k].date
           /\ 0 < panel[i].totalIssued
           /\ panel[j].amountIssued = 0
           /\ panel[i].totalIssued = panel[j].totalIssued
           /\ panel[j].totalIssued < panel[k].totalIssued

\* C5: a row dated before the first issue date of its cusip has
\* amountIssued = 0, the row made at today for a future-dated record included.
C5_ZeroBeforeFirstIssue ==
    pc = "done" =>
        \A i \in 1..Len(panel) :
            isWhenIssued(panel[i]) => panel[i].amountIssued = 0

C5_Witness ==
    /\ pc = "done"
    /\ \E i \in 1..Len(panel) :
           /\ isWhenIssued(panel[i])
           /\ panel[i].date = today
           /\ panel[i].amountIssued = 0
           /\ \E r \in recordsOf(panel[i].cusip) : records[r].total_accepted # Null

\* A peer group of the panel with no when-issued row.
issuedGroup(i) == \A j \in peerGroup(i) : ~isWhenIssued(panel[j])

firstIssueDatesOf(G) == {firstIssueDate(panel[j].cusip) : j \in G}

\* The rows of the group are rows of different cusips.
distinctCusips(G) == \A j, k \in G : j # k => panel[j].cusip # panel[k].cusip

\* C6 (as claimed): in a peer group of k rows with no when-issued row the
\* vintages are 0..k-1, each used once, the latest first-issued cusip first.
\* Stated for the groups whose k rows are rows of k cusips.
C6_VintagePermutation ==
    pc = "done" =>
        \A i \in 1..Len(panel) :
            issuedGroup(i) /\ distinctCusips(peerGroup(i)) =>
                /\ {panel[j].vintage : j \in peerGroup(i)}
                       = 0..(Cardinality(peerGroup(i)) - 1)
                /\ \A j, k \in peerGroup(i) :
                       j # k => panel[j].vintage # panel[k].vintage
                /\ \A j, k \in peerGroup(i) :
                       firstIssueDate(panel[j].cusip) > firstIssueDate(panel[k].cusip)
                           => panel[j].vintage < panel[k].vintage

\* C6 (amended): in a peer group with no when-issued row the vintages are
\* 0..m-1, m the number of distinct first issue dates of the group; a later
\* first issue date has the smaller vintage and an equal one the same vintage.
C6_VintageDenseRank ==
    pc = "done" =>
        \A i \in 1..Len(panel) :
            issuedGroup(i) =>
                /\ {panel[j].vintage : j \in peerGroup(i)}
                       = 0..(Cardinality(firstIssueDatesOf(peerGroup(i))) - 1)
                /\ \A j, k \in peerGroup(i) :
                       /\ firstIssueDate(panel[j].cusip) > firstIssueDate(panel[k].cusip)
                              => panel[j].vintage < panel[k].vintage
                       /\ firstIssueDate(panel[j].cusip) = firstIssueDate(panel[k].cusip)
                              => panel[j].vintage = panel[k].vintage

C6_Witness ==
    /\ pc = "done"
    /\ \E i, j \in 1..Len(panel) :
           /\ issuedGroup(i)
           /\ j \in peerGroup(i)
           /\ firstIssueDate(panel[i].cusip) > firstIssueDate(panel[j].cusip)
           /\ panel[i].vintage = 0
           /\ panel[j].vintage = 1

hasFutureRecord(c) == \E i \in recordsOf(c) : records[i].issue_date > today

todayRecords(c) == {i \in recordsOf(c) : records[i].issue_date = today}

futureRowAtToday(c) ==
    \E i \in panelRows(c, today) :
        panel[i].amountIssued = 0 /\ panel[i].issuanceType = NoneStr

\* With a record dated today the rows at today are those of the records dated
\* today: a future-dated record adds no row and no amount.
futureRecordDropped(c) ==
    /\ Cardinality(panelRows(c, today)) = Cardinality(todayRecords(c))
    /\ sumOver(panelAmounts, panelRows(c, today))
           = sumOver(acceptedAmounts, todayRecords(c))

\* C7 (as claimed): on every today, a cusip with a future-dated record and no
\* record dated today has a row at today with amountIssued = 0 and no
\* issuanceType; with a record dated today the future-dated record is dropped.
C7_FutureDatedRowAtToday ==
    pc = "done" =>
        \A c \in inputCusips :
            hasFutureRecord(c) =>
                IF todayRecords(c) = {} THEN futureRowAtToday(c)
                ELSE futureRecordDropped(c)

\* C7 (amended): the same on every today that is a Monday to Friday not before
\* the announcement of the cusip.
C7_FutureDatedRowAtBusinessToday ==
    pc = "done" =>
        \A c \in inputCusips :
            hasFutureRecord(c) /\ weekday(today) < 6 /\ announcementDate(c) <= today =>
                IF todayRecords(c) = {} THEN futureRowAtToday(c)
                ELSE futureRecordDropped(c)

C7_Witness ==
    /\ pc = "done"
    /\ weekday(today) < 6
    /\ \E c \in inputCusips :
           /\ \A i \in recordsOf(c) :
                  records[i].issue_date > today /\ records[i].total_accepted # Null
           /\ futureRowAtToday(c)

\* C8: the build of an empty collection of records ends normally, with an
\* empty panel, and never in an error.
C8_EmptyInputEmptyPanel ==
    records = <<>> =>
        /\ pc # "error"
        /\ pc = "done" => panel = <<>>

\* No two records of a cusip have the same issue date or are both future-dated,
\* so that no two rows of the panel have the same cusip and date.
oneRecordPerDate ==
    \A i, j \in 1..Len(records) :
        i # j /\ records[i].cusip = records[j].cusip =>
            /\ records[i].issue_date # records[j].issue_date
            /\ ~(records[i].issue_date > today /\ records[j].issue_date > today)

\* C9: all runs on the same records and the same today return the same rows in
\* the same order.  Stated for the inputs with one record per cusip and date.
C9_Deterministic ==
    pc = "start" /\ records # <<>> /\ oneRecordPerDate =>
        Cardinality({ustCusipPanel(records, today, run) : run \in Runs(records)}) = 1

\* C10: no row of the panel is dated on a Saturday or a Sunday.
C10_NoWeekendRows ==
    pc = "done" =>
        \A i \in 1..Len(panel) : weekday(panel[i].date) \notin {6, 7}

C10_Witness ==
    /\ pc = "done"
    /\ weekday(today) = 6
    /\ \E k \in 1..Len(completeDates) :
           /\ completeDates[k].date = today
           /\ \E i \in 1..Len(panel) :
                  /\ panel[i].cusip = completeDates[k].cusip
                  /\ panel[i].date = today - 1
           /\ panelRows(completeDates[k].cusip, today) = {}

\* C11: no term to maturity lies in two bands, so that the tenor is the value
\* of every band that contains the term, whatever the order of the tests.
C11_BandsDisjoint ==
    pc = "termed" =>
        \A i \in 1..Len(auctionsDf) :
            LET days == auctionsDf[i].termToMaturityDays
            IN  /\ Cardinality(billBandsOf(days)) + Cardinality(yearBandsOf(days)) <= 1
                /\ \A k \in billBandsOf(days) : tenorBand(days) = BillBands[k][3]
                /\ \A k \in yearBandsOf(days) : tenorBand(days) = YearBands[k][1]

\* The last day of the 4-year band, the band nearest to its successor.
C11_Witness ==
    /\ pc = "termed"
    /\ \E i \in 1..Len(auctionsDf) :
           /\ auctionsDf[i].termToMaturityDays = 1554
           /\ billBandsOf(1554) = {}
           /\ yearBandsOf(1554) = {3}
           /\ tenorBand(1554) = 4

\* The tenor of a term by the bands of the security's own kind: weeks for a
\* bill, years for a note or a bond, null when no such band contains the term.
tenorOfKind(type, days) ==
    IF type = "Bill"
    THEN IF billBandsOf(days) = {} THEN Null
         ELSE BillBands[Min(billBandsOf(days))][3]
    ELSE IF yearBandsOf(days) = {} THEN Null
         ELSE YearBands[Min(yearBandsOf(days))][1]

\* The security of the record was first issued with a term of its own kind.
issuedInOwnBand(r) ==
    tenorOfKind(r.security_type, r.earliestMaturityDate - r.earliestIssueDate) # Null

\* C12: the tenor assigned to a record is the tenor of its term by the bands of
\* its own kind of security, null when no such band contains the term.  Stated
\* for the records of securities first issued with a term of their own kind.
C12_TenorTypedBySecurity ==
    [][pc = "termed" /\ pc' = "classified" =>
          \A i \in 1..Len(auctionsDf) :
              issuedInOwnBand(auctionsDf[i]) =>
                  auctionsDf'[i].tenor
                      = tenorOfKind(auctionsDf[i].security_type,
                                    auctionsDf[i].termToMaturityDays)]_vars

\* The maturity date of the chronologically first record of cusip c.
firstMaturityDate(c) ==
    records[CHOOSE i \in recordsOf(c) :
                records[i].issue_date = firstIssueDate(c)].maturity_date

\* C13: a record that is a reopening announced under another cusip has the term
\* from its own issue date to the maturity date of the first issuance and its
\* issue date as unscheduledReopeningDate; every other record has the term of
\* the first issuance and no unscheduledReopeningDate.
C13_UnscheduledReopeningTerm ==
    pc = "termed" =>
        /\ Len(auctionsDf) = Len(records)
        /\ \A i \in 1..Len(auctionsDf) :
               LET r == auctionsDf[i]
               IN  IF r.announcemtd_cusip # NoneStr /\ r.reopening = "Yes"
                   THEN /\ r.termToMaturityDays
                               = firstMaturityDate(r.cusip) - r.issue_date
                        /\ r.unscheduledReopeningDate = r.issue_date
                   ELSE /\ r.termToMaturityDays
                               = firstMaturityDate(r.cusip) - firstIssueDate(r.cusip)
                        /\ r.unscheduledReopeningDate = Null

C13_Witness ==
    /\ pc = "termed"
    /\ \E i, j \in 1..Len(auctionsDf) :
           /\ auctionsDf[i].cusip = auctionsDf[j].cusip
           /\ auctionsDf[i].reopening = "Yes"
           /\ auctionsDf[i].announcemtd_cusip # NoneStr
           /\ auctionsDf[i].termToMaturityDays = 28
           /\ auctionsDf[i].unscheduledReopeningDate = auctionsDf[i].issue_date
           /\ auctionsDf[j].termToMaturityDays = 730
           /\ auctionsDf[j].unscheduledReopeningDate = Null

\* C14: no vintage is below -1, a row with vintage -1 is a when-issued row and
\* a row dated on or after the first issue date of its cusip has vintage >= 0.
C14_MinusOneOnlyWhenIssued ==
    pc = "done" =>
        \A i \in 1..Len(panel) :
            /\ panel[i].vintage >= -1
            /\ panel[i].vintage = -1 => isWhenIssued(panel[i])
            /\ ~isWhenIssued(panel[i]) => panel[i].vintage >= 0

\* A when-issued row with vintage -1 and an issued row of its peer group.
C14_Witness ==
    /\ pc = "done"
    /\ \E i, j \in 1..Len(panel) :
           /\ isWhenIssued(panel[i])
           /\ panel[i].vintage = -1
           /\ j \in peerGroup(i)
           /\ ~isWhenIssued(panel[j])
           /\ panel[j].vintage = 0

\* C15: every when-issued row has vintage -1, also when its peer group holds
\* when-issued rows of cusips with different first issue dates.
C15_WhenIssuedIsMinusOne ==
    pc = "done" =>
        \A i \in 1..Len(panel) :
            isWhenIssued(panel[i]) => panel[i].vintage = -1

\* The rows of cusip c dated before d, and dated d, as positions of the panel.
rowsBefore(c, d) ==
    {j \in 1..Len(panel) : panel[j].cusip = c /\ panel[j].date < d}

\* C16 (as claimed): the totalIssued of a row is the sum of amountIssued over
\* the rows of its cusip in the finished panel dated on or before its date.
\* Stated for the inputs with one record per cusip and date.
C16_RunningSumOfPanel ==
    pc = "done" /\ oneRecordPerDate =>
        \A i \in 1..Len(panel) :
            panel[i].totalIssued
                = sumOver(panelAmounts,
                          rowsBefore(panel[i].cusip, panel[i].date)
                              \cup panelRows(panel[i].cusip, panel[i].date))

\* C16 (amended): the totalIssued of a row of the finished panel is the running
\* sum of amountIssued over the rows of its cusip as they are before the weekend
\* rows are dropped: all rows dated before it, the row itself and, of the other
\* rows of its date, those summed up before it.
C16_RunningSumBeforeWeekendFilter ==
    [][pc = "ranked" /\ pc' = "done" =>
          \A i \in 1..Len(panel') :
              \E j \in panelRows(panel'[i].cusip, panel'[i].date) :
                  /\ panel[j] = panel'[i]
                  /\ \E T \in SUBSET (panelRows(panel[j].cusip, panel[j].date) \ {j}) :
                         panel'[i].totalIssued
                             = sumOver(panelAmounts,
                                       rowsBefore(panel[j].cusip, panel[j].date)
                                           \cup {j} \cup T)]_vars

\* After an issue on a Saturday the totalIssued of the cusip is the amount
\* issued, and no row of the panel has an amount.
C16_Witness ==
    /\ pc = "done"
    /\ \E i \in 1..Len(panel) :
           /\ panel[i].totalIssued = MaxAmount
           /\ \A j \in rowsOf(panel, panel[i].cusip) : panel[j].amountIssued = 0
           /\ \E r \in recordsOf(panel[i].cusip) :
                  /\ weekday(records[r].issue_date) = 6
                  /\ records[r].issue_date < panel[i].date
                  /\ records[r].total_accepted = MaxAmount

====
